---- MODULE Spec2Model ----
(***************************************************************************)
(* A model of the rendering core of ray-tracer-challenge: Ray, Material    *)
(* lighting and World (src/src/intersection/ray.rs,                        *)
(* src/src/intersection/shape/material.rs, src/src/world/mod.rs).          *)
(*                                                                         *)
(* f64 values are exact rationals <<numerator, denominator>> in lowest     *)
(* terms with a positive denominator; the inputs are chosen so that every  *)
(* square root taken is rational.  Tuples and colors are triples of        *)
(* rationals.                                                              *)
(***************************************************************************)
EXTENDS Integers, Sequences, FiniteSets

VARIABLES shapes, light, last

vars == <<shapes, light, last>>

----------------------------------------------------------------------------
(* f64 arithmetic *)

Abs(x) == IF x < 0 THEN -x ELSE x

RECURSIVE GCD(_, _)
GCD(a, b) == IF b = 0 THEN a ELSE GCD(b, a % b)

Rat(n, d) ==
    LET g == GCD(Abs(n), Abs(d))
        s == IF d < 0 THEN -1 ELSE 1
    IN  <<s * (n \div g), s * (d \div g)>>

Zero == <<0, 1>>
One == <<1, 1>>
Two == <<2, 1>>

RNeg(a) == <<-a[1], a[2]>>

RAdd(a, b) ==
    IF a[1] = 0 THEN b
    ELSE IF b[1] = 0 THEN a
    ELSE LET g == GCD(a[2], b[2])
         IN  Rat(a[1] * (b[2] \div g) + b[1] * (a[2] \div g), (a[2] \div g) * b[2])

RSub(a, b) == RAdd(a, RNeg(b))

RMul(a, b) ==
    IF a[1] = 0 \/ b[1] = 0 THEN Zero
    ELSE LET g1 == GCD(Abs(a[1]), b[2])
             g2 == GCD(Abs(b[1]), a[2])
         IN  <<(a[1] \div g1) * (b[1] \div g2), (a[2] \div g2) * (b[2] \div g1)>>

RInv(a) == IF a[1] < 0 THEN <<-a[2], -a[1]>> ELSE <<a[2], a[1]>>

RDiv(a, b) == RMul(a, RInv(b))

RLt(a, b) == a[1] * b[2] < b[1] * a[2]

RLe(a, b) == a[1] * b[2] <= b[1] * a[2]

RAbs(a) == <<Abs(a[1]), a[2]>>

RECURSIVE RPow(_, _)
RPow(a, k) ==
    IF k = 0 THEN One
    ELSE LET h == RPow(a, k \div 2)
         IN  IF k % 2 = 0 THEN RMul(h, h) ELSE RMul(a, RMul(h, h))

RECURSIVE ISqrtIn(_, _, _)
ISqrtIn(n, lo, hi) ==
    IF lo >= hi THEN lo
    ELSE LET mid == (lo + hi + 1) \div 2
         IN  IF mid * mid <= n THEN ISqrtIn(n, mid, hi) ELSE ISqrtIn(n, lo, mid - 1)

ISqrt(n) == ISqrtIn(n, 0, IF n < 46340 THEN n ELSE 46340)

RSqrt(a) ==
    CHOOSE r \in {<<ISqrt(a[1]), ISqrt(a[2])>>} : r[1] * r[1] = a[1] /\ r[2] * r[2] = a[2]

----------------------------------------------------------------------------
(* Tuple: points and vectors *)

Tup(x, y, z) == <<x, y, z>>

TAdd(a, b) == <<RAdd(a[1], b[1]), RAdd(a[2], b[2]), RAdd(a[3], b[3])>>

TSub(a, b) == <<RSub(a[1], b[1]), RSub(a[2], b[2]), RSub(a[3], b[3])>>

TScale(a, k) == <<RMul(a[1], k), RMul(a[2], k), RMul(a[3], k)>>

TNeg(a) == <<RNeg(a[1]), RNeg(a[2]), RNeg(a[3])>>

Dot(a, b) == RAdd(RAdd(RMul(a[1], b[1]), RMul(a[2], b[2])), RMul(a[3], b[3]))

ZeroVector == <<Zero, Zero, Zero>>

Magnitude(v) == RSqrt(Dot(v, v))

Normalize(v) == TScale(v, RInv(Magnitude(v)))

Reflect(v, n) == TSub(v, TScale(n, RMul(Two, Dot(v, n))))

----------------------------------------------------------------------------
(* Color *)

Black == <<Zero, Zero, Zero>>
White == <<One, One, One>>

CAdd(a, b) == <<RAdd(a[1], b[1]), RAdd(a[2], b[2]), RAdd(a[3], b[3])>>

CMul(a, b) == <<RMul(a[1], b[1]), RMul(a[2], b[2]), RMul(a[3], b[3])>>

CScale(a, k) == <<RMul(a[1], k), RMul(a[2], k), RMul(a[3], k)>>

EPSILON == <<1, 1000>>

eq_f64(a, b) == RLt(RAbs(RSub(a, b)), EPSILON)

----------------------------------------------------------------------------
(* Option<T>: <<>> is None, <<x>> is Some(x) *)

NoneOpt == <<>>
Some(x) == <<x>>
IsSome(o) == o /= <<>>
Unwrap(o) == o[1]

----------------------------------------------------------------------------
(* Material *)

MaterialDefault ==
    [color |-> White, ambient |-> <<1, 10>>, diffuse |-> <<9, 10>>,
     specular |-> <<9, 10>>, shininess |-> 200]

with_color(m, c) == [m EXCEPT !.color = c]

with_ambient(m, a) == [m EXCEPT !.ambient = a]

with_diffuse(m, d) == [m EXCEPT !.diffuse = d]

with_specular(m, sp) == [m EXCEPT !.specular = sp]

with_shininess(m, sh) == [m EXCEPT !.shininess = sh]

PointLight(position, intensity) == [position |-> position, intensity |-> intensity]

reflect_v_NotNegated(light_v, normal_v) == Reflect(light_v, normal_v)

reflect_v(light_v, normal_v) == TNeg(Reflect(light_v, normal_v))

lighting(m, l, point, eye_v, normal_v) ==
    LET effective_color == CMul(m.color, l.intensity)
        light_v == Normalize(TSub(l.position, point))
        ambient == CScale(effective_color, m.ambient)
        light_dot_normal == Dot(light_v, normal_v)
        diffuse == CScale(CScale(effective_color, m.diffuse), light_dot_normal)
        reflect_dot_eye == Dot(reflect_v(light_v, normal_v), eye_v)
        factor == RPow(reflect_dot_eye, m.shininess)
        ds == IF RLt(light_dot_normal, Zero)
              THEN <<Black, Black>>
              ELSE IF eq_f64(Zero, reflect_dot_eye) \/ RLt(reflect_dot_eye, Zero)
                   THEN <<diffuse, Black>>
                   ELSE <<diffuse, CScale(CScale(l.intensity, m.specular), factor)>>
    IN  CAdd(CAdd(ambient, ds[1]), ds[2])

----------------------------------------------------------------------------
(* Shape (Sphere) and Transformation *)

Transformation(scale, translation) == [scale |-> scale, translation |-> translation]

Sphere(tr, m) == [transformation |-> tr, material |-> m]

set_material(s, m) == [s EXCEPT !.material = m]

Ray(origin, direction) == [origin |-> origin, direction |-> direction]

ray_new(origin, direction) == Ray(origin, direction)

position(r, t) == TAdd(r.origin, TScale(r.direction, t))

InverseRay(tr, r) ==
    Ray(TScale(TSub(r.origin, tr.translation), RInv(tr.scale)),
        TScale(r.direction, RInv(tr.scale)))

local_intersect(r) ==
    LET a == Dot(r.direction, r.direction)
        b == RMul(Two, Dot(r.direction, r.origin))
        c == RSub(Dot(r.origin, r.origin), One)
        discriminant == RSub(RMul(b, b), RMul(<<4, 1>>, RMul(a, c)))
        root == RSqrt(discriminant)
    IN  IF RLt(discriminant, Zero) THEN <<>>
        ELSE <<RDiv(RSub(RNeg(b), root), RMul(Two, a)),
               RDiv(RAdd(RNeg(b), root), RMul(Two, a))>>

shape_intersects(s, r) == local_intersect(InverseRay(s.transformation, r))

normal_at(s, world_point) ==
    LET tr == s.transformation
        object_point == TScale(TSub(world_point, tr.translation), RInv(tr.scale))
        object_normal == object_point
        world_normal == TScale(object_normal, RInv(tr.scale))
    IN  Normalize(world_normal)

----------------------------------------------------------------------------
(* Intersection and IntersectionHeap.  An Rc<dyn Shape> is the shape        *)
(* together with the identity of its allocation.                           *)

Rc(id, s) == [id |-> id, shape |-> s]

Intersection(t, object) == [t |-> t, object |-> object]

HeapNew == <<>>

HeapPush(heap, x) ==
    LET k == Cardinality({j \in 1..Len(heap) : RLe(heap[j].t, x.t)})
    IN  SubSeq(heap, 1, k) \o <<x>> \o SubSeq(heap, k + 1, Len(heap))

RECURSIVE HeapPushAll(_, _)
HeapPushAll(heap, xs) ==
    IF xs = <<>> THEN heap ELSE HeapPushAll(HeapPush(heap, Head(xs)), Tail(xs))

RECURSIVE hit(_)
hit(heap) ==
    IF heap = <<>> THEN NoneOpt
    ELSE IF RLe(Zero, Head(heap).t) THEN Some(Head(heap)) ELSE hit(Tail(heap))

----------------------------------------------------------------------------
(* Ray::intersections *)

RECURSIVE Wrap(_, _)
Wrap(ts, object) ==
    IF ts = <<>> THEN <<>>
    ELSE <<Intersection(Head(ts), object)>> \o Wrap(Tail(ts), object)

intersections_DropBehind(r, object) ==
    HeapPushAll(HeapNew,
        SelectSeq(Wrap(shape_intersects(object.shape, r), object),
                  LAMBDA i : RLe(Zero, i.t)))

intersections(r, object) ==
    HeapPushAll(HeapNew, Wrap(shape_intersects(object.shape, r), object))

----------------------------------------------------------------------------
(* PreComputations *)

PreComputationsNew(h, r) ==
    LET point == position(r, h.t)
        eye_v == TNeg(r.direction)
        n == normal_at(h.object.shape, point)
        inside == RLt(Dot(n, eye_v), Zero)
        normal_v == IF inside THEN TNeg(n) ELSE n
    IN  [t |-> h.t, object |-> h.object, point |-> point, eye_v |-> eye_v,
         normal_v |-> normal_v, inside |-> inside,
         over_point |-> TAdd(point, TScale(normal_v, EPSILON))]

----------------------------------------------------------------------------
(* World *)

World(ss, l) == [shapes |-> ss, light |-> l]

world_new == World(<<>>, NoneOpt)

add_shape_First(w, shape) ==
    [w EXCEPT !.shapes = <<Rc(Len(w.shapes) + 1, shape)>> \o @]

add_shape(w, shape) ==
    [w EXCEPT !.shapes = Append(@, Rc(Len(w.shapes) + 1, shape))]

set_light(w, point_light) == [w EXCEPT !.light = Some(point_light)]

RECURSIVE IntersectsLoop(_, _, _)
IntersectsLoop(heap, ss, r) ==
    IF ss = <<>> THEN heap
    ELSE IntersectsLoop(HeapPushAll(heap, intersections(r, Head(ss))), Tail(ss), r)

intersects_LastShape(w, r) ==
    IF w.shapes = <<>> THEN HeapNew
    ELSE intersections(r, w.shapes[Len(w.shapes)])

intersects(w, r) == IntersectsLoop(HeapNew, w.shapes, r)

is_shadowed_Le(w, point) ==
    IF IsSome(w.light)
    THEN LET l == Unwrap(w.light)
             v == TSub(l.position, point)
             distance == Magnitude(v)
             direction == Normalize(v)
             r == Ray(point, direction)
             h == hit(intersects(w, r))
         IN  IsSome(h) /\ RLe(Unwrap(h).t, distance)
    ELSE FALSE

is_shadowed(w, point) ==
    IF IsSome(w.light)
    THEN LET l == Unwrap(w.light)
             v == TSub(l.position, point)
             distance == Magnitude(v)
             direction == Normalize(v)
             r == Ray(point, direction)
             h == hit(intersects(w, r))
         IN  IsSome(h) /\ RLt(Unwrap(h).t, distance)
    ELSE FALSE

(* The arguments of the call of lighting at lines 68-75. *)
shade_hit_args_RawPoint(w, comps) ==
    [object |-> comps.object, light |-> Unwrap(w.light), point |-> comps.point,
     eye_v |-> comps.eye_v, normal_v |-> comps.normal_v,
     in_shadow |-> is_shadowed(w, comps.point)]

shade_hit_args(w, comps) ==
    [object |-> comps.object, light |-> Unwrap(w.light), point |-> comps.over_point,
     eye_v |-> comps.eye_v, normal_v |-> comps.normal_v,
     in_shadow |-> is_shadowed(w, comps.over_point)]

(* lighting as material.rs defines it takes neither the object nor the     *)
(* in_shadow flag. *)
shade_hit(w, comps) ==
    IF IsSome(w.light)
    THEN LET a == shade_hit_args(w, comps)
         IN  lighting(a.object.shape.material, a.light, a.point, a.eye_v, a.normal_v)
    ELSE Black

color_at_FirstEntry(w, r) ==
    LET xs == intersects(w, r)
    IN  IF xs /= <<>>
        THEN shade_hit(w, PreComputationsNew(Head(xs), r))
        ELSE Black

color_at(w, r) ==
    LET h == hit(intersects(w, r))
    IN  IF IsSome(h)
        THEN shade_hit(w, PreComputationsNew(Unwrap(h), r))
        ELSE Black

----------------------------------------------------------------------------
(* Inputs *)

MaxShapes == 2

I(n) == <<n, 1>>

OnAxis(z) == Tup(Zero, Zero, I(z))

Transformations ==
    { Transformation(One, OnAxis(0)),
      Transformation(<<1, 2>>, OnAxis(0)),
      Transformation(One, OnAxis(2)) }

Materials == { MaterialDefault, with_ambient(MaterialDefault, One) }

Lights == { PointLight(OnAxis(z), White) : z \in {-3, 1} }

AxisPoints == { OnAxis(z) : z \in -3..3 }

(* Rays along the axis of the spheres: every hit point, normal and shadow   *)
(* ray stays on the axis. *)
AxisRays ==
    { Ray(OnAxis(-3), OnAxis(1)), Ray(OnAxis(-3), OnAxis(-1)),
      Ray(OnAxis(0), OnAxis(1)), Ray(OnAxis(3), OnAxis(-1)) }

(* A ray tangent to the unit spheres and a ray that misses every sphere. *)
TangentRay == Ray(Tup(Zero, One, I(-3)), OnAxis(1))
MissRay == Ray(Tup(Zero, Two, I(-3)), OnAxis(1))

RayDirections == { ZeroVector, OnAxis(1), OnAxis(-1), Tup(I(4), I(5), I(6)) }

ColorRays == AxisRays \cup {MissRay}

ProbeRays == AxisRays \cup {MissRay, TangentRay}

----------------------------------------------------------------------------
(* The state: the World (shapes, light) and the last call with its result. *)

W == World(shapes, light)

Idle == [op |-> "idle"]

Init ==
    /\ shapes = world_new.shapes
    /\ light = world_new.light
    /\ last = Idle

AddShape ==
    \E tr \in Transformations :
        /\ last = Idle
        /\ Len(shapes) < MaxShapes
        /\ shapes' = add_shape(W, Sphere(tr, MaterialDefault)).shapes
        /\ last' = [op |-> "add_shape", pre |-> shapes, shape |-> Sphere(tr, MaterialDefault)]
        /\ UNCHANGED light

(* shapes_mut as the repository uses it (mod.rs 239-244): get_mut(i), then  *)
(* set_material on the shape. *)
ShapesMut ==
    \E i \in 1..Len(shapes), m \in Materials :
        /\ last = Idle
        /\ shapes' = [shapes EXCEPT ![i].shape = set_material(@, m)]
        /\ last' = [op |-> "shapes_mut", pre |-> shapes]
        /\ UNCHANGED light

SetLight ==
    \E l \in Lights :
        /\ last = Idle
        /\ light' = set_light(W, l).light
        /\ last' = [op |-> "set_light", pre |-> light, arg |-> l]
        /\ UNCHANGED shapes

RayIntersections ==
    \E r \in ProbeRays, i \in 1..Len(shapes) :
        /\ last = Idle
        /\ last' = [op |-> "intersections", ray |-> r, object |-> shapes[i],
                    result |-> intersections(r, shapes[i])]
        /\ UNCHANGED <<shapes, light>>

Intersects ==
    \E r \in ProbeRays :
        /\ last = Idle
        /\ last' = [op |-> "intersects", ray |-> r, result |-> intersects(W, r)]
        /\ UNCHANGED <<shapes, light>>

IsShadowed ==
    \E p \in AxisPoints :
        /\ last = Idle
        /\ IsSome(light) => Unwrap(light).position /= p
        /\ last' = [op |-> "is_shadowed", point |-> p, result |-> is_shadowed(W, p)]
        /\ UNCHANGED <<shapes, light>>

ShadeHit ==
    /\ last = Idle
    /\ \E r \in AxisRays :
        \E i \in {intersects(W, r)[k] : k \in 1..Len(intersects(W, r))} :
            LET comps == PreComputationsNew(i, r)
            IN  /\ last' = [op |-> "shade_hit", comps |-> comps,
                            call |-> IF IsSome(light) THEN Some(shade_hit_args(W, comps))
                                     ELSE NoneOpt,
                            result |-> shade_hit(W, comps)]
                /\ UNCHANGED <<shapes, light>>

RayNew ==
    \E o \in {OnAxis(0), OnAxis(-3)}, d \in RayDirections :
        /\ last = Idle
        /\ last' = [op |-> "ray_new", origin |-> o, direction |-> d,
                    result |-> ray_new(o, d)]
        /\ UNCHANGED <<shapes, light>>

ColorAt ==
    \E r \in ColorRays :
        /\ last = Idle
        /\ last' = [op |-> "color_at", ray |-> r, result |-> color_at(W, r)]
        /\ UNCHANGED <<shapes, light>>

(* The caller drops the value the last call returned. *)
Drop ==
    /\ last /= Idle
    /\ last' = Idle
    /\ UNCHANGED <<shapes, light>>

Next ==
    \/ Drop
    \/ AddShape
    \/ ShapesMut
    \/ SetLight
    \/ RayIntersections
    \/ Intersects
    \/ IsShadowed
    \/ ShadeHit
    \/ ColorAt
    \/ RayNew

Spec == Init /\ [][Next]_vars

----------------------------------------------------------------------------
(* Material::lighting on its own: the inputs are unit vectors with rational *)
(* components, and an eye vector short enough to fall within the tolerance. *)

LightingMaterials ==
    { with_shininess(MaterialDefault, 2),
      with_shininess(
          with_specular(
              with_diffuse(with_color(MaterialDefault, <<<<4, 5>>, One, <<3, 5>>>>),
                           <<7, 10>>),
              <<1, 5>>),
          1) }

LightingLights ==
    { PointLight(Tup(Zero, I(y), I(z)), c) :
        y \in {0, 3}, z \in {-4, 4}, c \in {White, <<<<1, 2>>, <<1, 2>>, One>>} }

LightingPoints == { OnAxis(0), Tup(Zero, I(3), Zero) }

LightingNormals == { OnAxis(-1), Tup(Zero, <<3, 5>>, <<-4, 5>>) }

LightingEyes ==
    { OnAxis(-1), Tup(Zero, <<3, 5>>, <<-4, 5>>), Tup(Zero, <<-3, 5>>, <<-4, 5>>),
      Tup(Zero, Zero, <<-1, 2000>>), OnAxis(1) }

LightingCall ==
    \E m \in LightingMaterials, l \in LightingLights, p \in LightingPoints,
       e \in LightingEyes, n \in LightingNormals :
        /\ last = Idle
        /\ l.position /= p
        /\ last' = [op |-> "lighting", m |-> m, light |-> l, point |-> p,
                    eye_v |-> e, normal_v |-> n, result |-> lighting(m, l, p, e, n)]
        /\ UNCHANGED <<shapes, light>>

NextLighting ==
    \/ Drop
    \/ LightingCall

SpecLighting == Init /\ [][NextLighting]_vars

----------------------------------------------------------------------------
(* Helpers of the properties *)

Ascending(xs) == \A i, j \in 1..Len(xs) : i < j => RLe(xs[i].t, xs[j].t)

Range(f) == { f[k] : k \in DOMAIN f }

Count(f, x) == Cardinality({ k \in DOMAIN f : f[k] = x })

(* The index of the entry of xs with the smallest non-negative t, the      *)
(* first of them in the order of xs; 0 when no t is non-negative. *)
HitIndex(xs) ==
    LET nonneg == { k \in 1..Len(xs) : RLe(Zero, xs[k].t) }
    IN  IF nonneg = {} THEN 0
        ELSE CHOOSE k \in nonneg :
                 \A j \in nonneg : RLt(xs[k].t, xs[j].t) \/ (xs[k].t = xs[j].t /\ k <= j)

(* Every non-negative t at which ray r meets a shape of the world. *)
NonNegativeTs(r) ==
    { t \in UNION { Range(shape_intersects(shapes[i].shape, r)) : i \in 1..Len(shapes) } :
        RLe(Zero, t) }

Ambient(m, l) == CScale(CMul(m.color, l.intensity), m.ambient)

----------------------------------------------------------------------------
(* C1: color_at returns black when the world's intersection set for the ray *)
(* has no entry with t >= 0, and otherwise shade_hit of the precomputation  *)
(* built from the ray and the entry with the smallest non-negative t,       *)
(* whatever entries with t < 0 precede it. *)
C1_ColorAtUsesNearestNonNegativeHit ==
    last.op = "color_at" =>
        LET xs == intersects(W, last.ray)
            k == HitIndex(xs)
        IN  IF k = 0 THEN last.result = Black
            ELSE last.result = shade_hit(W, PreComputationsNew(xs[k], last.ray))

C1_Witness ==
    /\ last.op = "color_at"
    /\ IsSome(light)
    /\ LET xs == intersects(W, last.ray)
       IN  /\ HitIndex(xs) > 1
           /\ RLt(xs[1].t, Zero)
           /\ last.result /= Black
           /\ last.result /= shade_hit(W, PreComputationsNew(xs[1], last.ray))

(* C2: the collection World::intersects returns is ascending by t across    *)
(* all shapes, whatever the order the shapes were added in, and holds       *)
(* exactly the intersections of every shape of the world. *)
C2_IntersectsAscendingUnion ==
    last.op = "intersects" =>
        /\ Ascending(last.result)
        /\ \A k \in 1..Len(last.result) : last.result[k].object \in Range(shapes)
        /\ \A i \in 1..Len(shapes) :
              LET ts == shape_intersects(shapes[i].shape, last.ray)
                  mine == SelectSeq(last.result, LAMBDA x : x.object = shapes[i])
              IN  /\ Len(mine) = Len(ts)
                  /\ \A t \in Range(ts) :
                        Count(ts, t) = Cardinality({ k \in 1..Len(mine) : mine[k].t = t })

C2_Witness ==
    /\ last.op = "intersects"
    /\ Len(shapes) = 2
    /\ Len(last.result) = 4
    /\ last.result[1].object = shapes[2]
    /\ last.result[2].object = shapes[1]
    /\ last.result[4].object = shapes[2]

(* C3: is_shadowed is false without a light; with a light it is true        *)
(* exactly when the smallest non-negative t of the ray from the point       *)
(* toward the light, over all shapes, is strictly less than the distance    *)
(* from the point to the light. *)
C3_IsShadowedIffOccluderBeforeLight ==
    last.op = "is_shadowed" =>
        IF ~IsSome(light) THEN last.result = FALSE
        ELSE LET v == TSub(Unwrap(light).position, last.point)
                 distance == Magnitude(v)
                 ts == NonNegativeTs(Ray(last.point, Normalize(v)))
             IN  last.result =
                     (\E t \in ts : (\A u \in ts : RLe(t, u)) /\ RLt(t, distance))

C3_Witness ==
    /\ last.op = "is_shadowed"
    /\ IsSome(light)
    /\ last.result = FALSE
    /\ LET v == TSub(Unwrap(light).position, last.point)
           ts == NonNegativeTs(Ray(last.point, Normalize(v)))
       IN  /\ Magnitude(v) \in ts
           /\ \A u \in ts : RLe(Magnitude(v), u)

(* C4: whenever the in_shadow flag the caller supplies is true, the         *)
(* lighting result is the ambient contribution alone. *)
C4_InShadowIsAmbientAlone ==
    (last.op = "shade_hit" /\ IsSome(last.call)) =>
        LET a == Unwrap(last.call)
        IN  a.in_shadow => last.result = Ambient(a.object.shape.material, a.light)

(* C5: shade_hit returns black without a light; with a light it returns     *)
(* the hit shape's material lighting for that light at over_point (the      *)
(* point moved by EPSILON along the normal, not the raw point), with the    *)
(* eye and normal vectors of the precomputation, the in-shadow flag passed  *)
(* being is_shadowed(over_point) of the same world. *)
C5_ShadeHitDelegatesAtOverPoint ==
    last.op = "shade_hit" =>
        LET c == last.comps
            over == TAdd(c.point, TScale(c.normal_v, EPSILON))
        IN  IF ~IsSome(light)
            THEN last.result = Black /\ last.call = NoneOpt
            ELSE /\ last.call =
                        Some([object |-> c.object, light |-> Unwrap(light), point |-> over,
                              eye_v |-> c.eye_v, normal_v |-> c.normal_v,
                              in_shadow |-> is_shadowed(W, over)])
                 /\ c.object \in Range(shapes)
                 /\ last.result =
                        lighting(c.object.shape.material, Unwrap(light), over,
                                 c.eye_v, c.normal_v)

C5_Witness ==
    /\ last.op = "shade_hit"
    /\ IsSome(last.call)
    /\ ~Unwrap(last.call).in_shadow
    /\ is_shadowed(W, last.comps.point)
    /\ last.result /= Ambient(last.comps.object.shape.material, Unwrap(light))

(* C6: no Ray with the zero vector as direction is obtained from the public *)
(* constructor. *)
C6_NoZeroDirectionRay ==
    last.op = "ray_new" => last.result.direction /= ZeroVector

C9_LightingPiecewise ==
    last.op = "lighting" =>
        LET m == last.m
            l == last.light
            effective_color == CMul(m.color, l.intensity)
            light_v == Normalize(TSub(l.position, last.point))
            light_dot_normal == Dot(light_v, last.normal_v)
            reflect_dot_eye == Dot(Reflect(TNeg(light_v), last.normal_v), last.eye_v)
            ambient == Ambient(m, l)
            diffuse == CScale(effective_color, RMul(m.diffuse, light_dot_normal))
            specular == CScale(l.intensity,
                               RMul(m.specular, RPow(reflect_dot_eye, m.shininess)))
        IN  IF RLt(light_dot_normal, Zero) THEN last.result = ambient
            ELSE IF RLt(reflect_dot_eye, EPSILON) THEN last.result = CAdd(ambient, diffuse)
            ELSE last.result = CAdd(CAdd(ambient, diffuse), specular)

C9_Witness ==
    /\ last.op = "lighting"
    /\ LET light_v == Normalize(TSub(last.light.position, last.point))
           reflect_dot_eye == Dot(Reflect(TNeg(light_v), last.normal_v), last.eye_v)
       IN  /\ RLt(Zero, Dot(light_v, last.normal_v))
           /\ RLe(EPSILON, reflect_dot_eye)
           /\ RLt(reflect_dot_eye, One)
           /\ last.result /= CAdd(Ambient(last.m, last.light),
                                  CScale(CMul(last.m.color, last.light.intensity),
                                         RMul(last.m.diffuse, Dot(light_v, last.normal_v))))

(* C10: Ray::intersections returns one Intersection for each t of           *)
(* shape.intersects(ray), at most two, negative t kept, each referencing    *)
(* that shape, in ascending order of t. *)
C10_IntersectionsWrapEveryT ==
    last.op = "intersections" =>
        LET ts == shape_intersects(last.object.shape, last.ray)
        IN  /\ Len(last.result) = Len(ts)
            /\ Len(last.result) <= 2
            /\ \A t \in Range(ts) :
                  Count(ts, t) = Cardinality({ k \in 1..Len(last.result) : last.result[k].t = t })
            /\ \A k \in 1..Len(last.result) : last.result[k].object = last.object
            /\ Ascending(last.result)

C10_Witness ==
    /\ last.op = "intersections"
    /\ Len(last.result) = 2
    /\ RLt(last.result[1].t, Zero)
    /\ RLt(Zero, last.result[2].t)

====
